---------------------------- MODULE Spec2Model ----------------------------
(***************************************************************************)
(* A model of the QMC5883LCompass driver (QMC5883LCompass.h / .cpp): the   *)
(* reading pipeline read() -> _applyCalibration() -> _smoothing(), the     *)
(* getters getX/getY/getZ/_get, and the heading functions getAzimuth,      *)
(* getBearing and getDirection.                                            *)
(*                                                                         *)
(* Conventions.                                                            *)
(*  - Arrays are functions over 0-based index sets, as in the C++ source.  *)
(*  - C++ integer division truncates toward zero (TruncDiv); TLA+ \div     *)
(*    floors, so it is used on non-negative operands only.                 *)
(*  - float arithmetic (the calibration scale, atan2) is modelled by its   *)
(*    exact mathematical value followed by the truncating conversion to    *)
(*    int that the code applies.                                           *)
(*  - Division by zero and out-of-range float-to-int conversion are        *)
(*    undefined behaviour: the model lets the build either trap (the       *)
(*    program stops) or yield any value of Indeterminate. The calibration  *)
(*    bounds drawn in CalInputs have a nonzero half-range on every axis,   *)
(*    so the conversion is defined in every behaviour of Spec.             *)
(*  - The Wire bus and the chip are the environment: endTransmission()     *)
(*    returns any status of BusStatus, and after a successful one          *)
(*    requestFrom(_ADDR, 6) delivers the six bytes of the chip's output    *)
(*    registers. The two Wire.read() operands of "|" are taken in the      *)
(*    order written, as the Arduino toolchains evaluate them.              *)
(***************************************************************************)
EXTENDS Integers, Sequences, FiniteSets, TLC

VARIABLES
    smoothUse,        \* bool _smoothUse
    smoothSteps,      \* byte _smoothSteps
    smoothAdvanced,   \* bool _smoothAdvanced
    vRaw,             \* int  _vRaw[3]
    vHistory,         \* int  _vHistory[10][3]
    vScan,            \* int  _vScan
    vTotals,          \* long _vTotals[3]
    vSmooth,          \* int  _vSmooth[3]
    calibrationUse,   \* bool _calibrationUse
    vCalibration,     \* int  _vCalibration[3][2]
    vCalibrated,      \* int  _vCalibrated[3]
    halted,           \* TRUE once an arithmetic fault has trapped
    call,             \* the last call made on the driver and what it returned
    ghost             \* for stating properties only:
                      \*   fill        what the uninitialised members held
                      \*   okReads     successful read() calls so far
                      \*   configs     setSmoothing/setCalibration calls
                      \*   smoothing   setSmoothing has been called
                      \*   calibration setCalibration has been called
                      \*   smoothedAt  okReads at the last setSmoothing, or -1
                      \*   field       (x, y, z) the chip reported last
                      \*   samples     the (x, y, z) of the successful reads
                      \*               made with smoothing in use
                      \*   slots       for each read that ran _smoothing, the
                      \*               history index it wrote and the
                      \*               _smoothSteps it ran with

vars == <<smoothUse, smoothSteps, smoothAdvanced, vRaw, vHistory, vScan,
          vTotals, vSmooth, calibrationUse, vCalibration, vCalibrated,
          halted, call, ghost>>

driver == <<smoothUse, smoothSteps, smoothAdvanced, vRaw, vHistory, vScan,
            vTotals, vSmooth, calibrationUse, vCalibration, vCalibrated>>

-----------------------------------------------------------------------------
(* Bounds of the model *)

\* successful read() calls in one behaviour of Spec
MaxReads == 3
\* setSmoothing()/setCalibration() calls in one behaviour of Spec
MaxConfig == 2
\* largest |x|, |y| fed to getAzimuth in SpecAzimuth
MaxField == 20

-----------------------------------------------------------------------------
(* Program constants *)

Axes == 0 .. 2
\* int _vHistory[10][3]
HistorySize == 10
Slots == 0 .. (HistorySize - 1)
\* Wire.requestFrom(_ADDR, (byte)6)
FrameLen == 6
\* byte _smoothSteps = 5
DefaultSteps == 5
\* ( steps > 10) ? 10 : steps
MaxSteps == 10


-----------------------------------------------------------------------------
(* Inputs of the model: what the callers pass and what the bus delivers *)

\* Values an undefined operation or an uninitialised member may yield.
Indeterminate == {-1, 0}

\* Wire.endTransmission(): 0 is success, 1 .. 4 are the bus errors; the model
\* draws 2 (address not acknowledged) among them.
BusStatus == {0, 2}

\* Fields (x, y, z) the chip measures in Spec.
Fields == { <<5, -5, 1>>, <<-5, 3, 9>> }

\* (steps, adv) arguments of setSmoothing in Spec; steps is a byte.
SmoothingInputs == { <<0, FALSE>>, <<2, FALSE>>, <<2, TRUE>>, <<3, TRUE>>,
                     <<11, FALSE>> }

\* (x_min, x_max, y_min, y_max, z_min, z_max) arguments of setCalibration:
\* symmetric bounds; shifted bounds with one common half-range; bounds with
\* different half-ranges (scales 5/8 and 5/4, exact as floats).
CalInputs == { <<-4, 4, -4, 4, -4, 4>>,
               <<-3, 0, 2, 4, -1, 1>>,
               <<-8, 8, -4, 4, -4, 4>> }

-----------------------------------------------------------------------------
(* C++ arithmetic *)

Abs(a) == IF a < 0 THEN -a ELSE a

\* int / int and long / int: the quotient truncated toward zero (b # 0).
TruncDiv(a, b) ==
    IF (a >= 0) = (b > 0) THEN Abs(a) \div Abs(b) ELSE -(Abs(a) \div Abs(b))

\* a | b on non-negative operands, bit by bit.
RECURSIVE BitOr(_, _)
BitOr(a, b) ==
    IF a = 0 THEN b
    ELSE IF b = 0 THEN a
    ELSE (IF (a % 2 = 1) \/ (b % 2 = 1) THEN 1 ELSE 0)
         + 2 * BitOr(a \div 2, b \div 2)

\* a << 8
ShiftLeft8(a) == a * 256

\* (int)(int16_t) u: the low 16 bits read as two's complement.
ToInt16(u) ==
    LET m == u % 65536 IN IF m >= 32768 THEN m - 65536 ELSE m

\* A variant of Word without the int16_t cast.
WordUnsigned(first, second) == BitOr(first, ShiftLeft8(second))

\* Wire.read() | Wire.read() << 8, the first byte read being the left operand.
Word(first, second) == ToInt16(BitOr(first, ShiftLeft8(second)))

-----------------------------------------------------------------------------
(* The chip: output registers 00H..05H hold X, Y, Z as little-endian       *)
(* two's-complement 16-bit words (data sheet, as cited in the source).     *)

LowByte(v) == (v % 65536) % 256
HighByte(v) == (v % 65536) \div 256

\* The six bytes a burst read from register 00H delivers for field f.
Frame(f) == << LowByte(f[1]), HighByte(f[1]),
               LowByte(f[2]), HighByte(f[2]),
               LowByte(f[3]), HighByte(f[3]) >>

-----------------------------------------------------------------------------
(* Construction *)

NoCall == [op |-> "new", err |-> 0, requested |-> 0, rx |-> << >>,
           arg |-> 0, ret |-> 0, row |-> 0, myArray |-> << >>]

\* The members with default initialisers get them; _vHistory, _vCalibration
\* and _vCalibrated have none: zero for an object in static storage (the
\* sketches' global "QMC5883LCompass compass;"), indeterminate otherwise.
InitWith(u) ==
    /\ smoothUse = FALSE
    /\ smoothSteps = DefaultSteps
    /\ smoothAdvanced = FALSE
    /\ vRaw = [i \in Axes |-> 0]
    /\ vHistory = [s \in Slots |-> [i \in Axes |-> u]]
    /\ vScan = 0
    /\ vTotals = [i \in Axes |-> 0]
    /\ vSmooth = [i \in Axes |-> 0]
    /\ calibrationUse = FALSE
    /\ vCalibration = [i \in Axes |-> [k \in 0 .. 1 |-> u]]
    /\ vCalibrated = [i \in Axes |-> u]
    /\ halted = FALSE
    /\ call = NoCall
    /\ ghost = [fill |-> u, okReads |-> 0, configs |-> 0,
                smoothing |-> FALSE, calibration |-> FALSE,
                smoothedAt |-> -1, field |-> <<0, 0, 0>>, samples |-> << >>,
                slots |-> << >>]

Init == \E u \in Indeterminate : InitWith(u)

-----------------------------------------------------------------------------
(* setSmoothing, setCalibration *)

\* _smoothSteps = ( steps > 10) ? 10 : steps
ClampSteps(steps) == IF steps > MaxSteps THEN MaxSteps ELSE steps

setSmoothing(steps, adv) ==
    /\ ~halted
    /\ ghost.configs < MaxConfig
    /\ smoothUse' = TRUE
    /\ smoothSteps' = ClampSteps(steps)
    /\ smoothAdvanced' = adv
    /\ call' = [NoCall EXCEPT !.op = "setSmoothing", !.arg = steps]
    /\ ghost' = [ghost EXCEPT !.configs = @ + 1,
                              !.smoothing = TRUE,
                              !.smoothedAt = ghost.okReads]
    /\ UNCHANGED <<vRaw, vHistory, vScan, vTotals, vSmooth, calibrationUse,
                   vCalibration, vCalibrated, halted>>

setCalibration(b) ==
    /\ ~halted
    /\ ghost.configs < MaxConfig
    /\ calibrationUse' = TRUE
    /\ vCalibration' = [i \in Axes |->
                          [k \in 0 .. 1 |-> b[2 * i + k + 1]]]
    /\ call' = [NoCall EXCEPT !.op = "setCalibration"]
    /\ ghost' = [ghost EXCEPT !.configs = @ + 1, !.calibration = TRUE]
    /\ UNCHANGED <<smoothUse, smoothSteps, smoothAdvanced, vRaw, vHistory,
                   vScan, vTotals, vSmooth, vCalibrated, halted>>

-----------------------------------------------------------------------------
(* _applyCalibration *)

\* A variant of CalOffset that takes the half-range for the offset.
CalOffsetFromRange(cal, i) == TruncDiv(cal[i][1] - cal[i][0], 2)

\* x_offset, y_offset, z_offset
CalOffset(cal, i) == TruncDiv(cal[i][0] + cal[i][1], 2)
\* x_avg_delta, y_avg_delta, z_avg_delta
CalDelta(cal, i) == TruncDiv(cal[i][1] - cal[i][0], 2)
\* avg_delta
CalAvgDelta(cal) ==
    TruncDiv(CalDelta(cal, 0) + CalDelta(cal, 1) + CalDelta(cal, 2), 3)

\* _vCalibrated[i] = (_vRaw[i] - offset) * scale, scale = (float)avg_delta /
\* axis delta. A zero axis delta makes the scale infinite or NaN and the
\* conversion of the product to int undefined: g stands for its outcome.
CalibratedAxis(raw, cal, i, g) ==
    IF CalDelta(cal, i) = 0
    THEN g
    ELSE TruncDiv((raw[i] - CalOffset(cal, i)) * CalAvgDelta(cal),
                  CalDelta(cal, i))

\* Runs after _vRaw has been assigned in read().
applyCalibration(g) ==
    vCalibrated' = [i \in Axes |-> CalibratedAxis(vRaw', vCalibration, i, g)]

-----------------------------------------------------------------------------
(* _smoothing *)

\* A variant of ScanSlot that wraps one read late.
ScanSlotLate(scan, steps) == IF scan > steps THEN 0 ELSE scan

\* if ( _vScan > _smoothSteps - 1 ) { _vScan = 0; }
ScanSlot(scan, steps) == IF scan > steps - 1 THEN 0 ELSE scan

\* if ( _vTotals[i] != 0 ) { _vTotals[i] = _vTotals[i] - _vHistory[_vScan][i]; }
Evict(total, old) == IF total # 0 THEN total - old ELSE total

\* max = 0; for (j = 0; j < _smoothSteps - 1; j++)
\*              max = ( h[j][i] > h[max][i] ) ? j : max;
\* n is the loop's bound, j its counter.
RECURSIVE ScanMaxFrom(_, _, _, _, _)
ScanMaxFrom(history, i, n, j, max) ==
    IF j >= n THEN max
    ELSE IF history[j][i] > history[max][i]
         THEN ScanMaxFrom(history, i, n, j + 1, j)
         ELSE ScanMaxFrom(history, i, n, j + 1, max)

\* min = 0; for (k = 0; k < _smoothSteps - 1; k++)
\*              min = ( h[k][i] < h[min][i] ) ? k : min;
RECURSIVE ScanMinFrom(_, _, _, _, _)
ScanMinFrom(history, i, n, k, min) ==
    IF k >= n THEN min
    ELSE IF history[k][i] < history[min][i]
         THEN ScanMinFrom(history, i, n, k + 1, k)
         ELSE ScanMinFrom(history, i, n, k + 1, min)

\* A variant of ScanRange whose loops visit every slot of the window.
ScanRangeWhole(steps) == steps

\* The bound of the two loops: j < _smoothSteps - 1.
ScanRange(steps) == steps - 1

ScanMax(history, i, steps) == ScanMaxFrom(history, i, ScanRange(steps), 0, 0)
ScanMin(history, i, steps) == ScanMinFrom(history, i, ScanRange(steps), 0, 0)

\* ( _vTotals[i] - (_vHistory[max][i] + _vHistory[min][i]) ) / (_smoothSteps - 2)
AdvancedAverage(history, total, i, steps) ==
    TruncDiv(total - (history[ScanMax(history, i, steps)][i]
                      + history[ScanMin(history, i, steps)][i]),
             steps - 2)

\* _vTotals[i] / _smoothSteps
BasicAverage(total, steps) == TruncDiv(total, steps)

\* The divisor of the average.
Divisor(steps, adv) == IF adv THEN steps - 2 ELSE steps

\* _vSmooth[i], from the history and the total as updated for this sample.
\* A zero divisor is undefined: g stands for the value it yields when it
\* does not trap.
Average(history, total, i, steps, adv, g) ==
    IF Divisor(steps, adv) = 0 THEN g
    ELSE IF adv THEN AdvancedAverage(history, total, i, steps)
    ELSE BasicAverage(total, steps)

\* _vHistory[_vScan][i] = ( _calibrationUse ) ? _vCalibrated[i] : _vRaw[i]
FilterInput(raw, calibrated, useCal) == IF useCal THEN calibrated ELSE raw

\* A variant of smoothing that runs before _applyCalibration: it takes the
\* calibrated values the previous read left.
smoothingFirst(g) ==
    LET slot == ScanSlot(vScan, smoothSteps)
        sample == FilterInput(vRaw', vCalibrated, calibrationUse)
    IN
    /\ vHistory' = [vHistory EXCEPT ![slot] = [i \in Axes |-> sample[i]]]
    /\ vTotals' = [i \in Axes |->
                     Evict(vTotals[i], vHistory[slot][i]) + sample[i]]
    /\ vSmooth' = [i \in Axes |->
                     Average(vHistory', vTotals'[i], i, smoothSteps,
                             smoothAdvanced, g)]
    /\ vScan' = slot + 1

\* Runs after _vRaw and _vCalibrated have been assigned in read(). The loop
\* over the axes touches one column of the history and one total per pass,
\* so the three passes are written as one assignment per member.
smoothing(g) ==
    LET slot == ScanSlot(vScan, smoothSteps)
        sample == FilterInput(vRaw', vCalibrated', calibrationUse)
    IN
    /\ vHistory' = [vHistory EXCEPT ![slot] = [i \in Axes |-> sample[i]]]
    /\ vTotals' = [i \in Axes |->
                     Evict(vTotals[i], vHistory[slot][i]) + sample[i]]
    /\ vSmooth' = [i \in Axes |->
                     Average(vHistory', vTotals'[i], i, smoothSteps,
                             smoothAdvanced, g)]
    /\ vScan' = slot + 1

-----------------------------------------------------------------------------
(* read *)

\* _vRaw[i] = (int)(int16_t)(Wire.read() | Wire.read() << 8), three times
\* over the six bytes of the frame in the order they arrive.
RawFromFrame(frame) ==
    [i \in Axes |-> Word(frame[2 * i + 1], frame[2 * i + 2])]

\* A variant of readFailed without the "if (!err)" test: the six Wire.read()
\* calls find no byte and return -1 each.
readUnchecked(err) ==
    /\ ~halted
    /\ err # 0
    /\ vRaw' = [i \in Axes |-> -1]
    /\ call' = [NoCall EXCEPT !.op = "read", !.err = err,
                              !.requested = FrameLen]
    /\ UNCHANGED <<smoothUse, smoothSteps, smoothAdvanced, vHistory, vScan,
                   vTotals, vSmooth, calibrationUse, vCalibration,
                   vCalibrated, halted, ghost>>

\* Wire.endTransmission() returned err # 0: the body of "if (!err)" is skipped.
readFailed(err) ==
    /\ ~halted
    /\ err # 0
    /\ call' = [NoCall EXCEPT !.op = "read", !.err = err]
    /\ UNCHANGED <<driver, halted, ghost>>

\* Wire.endTransmission() returned 0: the six bytes of field f are requested
\* and read, then calibration and smoothing run if in use. g is the value an
\* undefined operation of this call yields; trap says whether a zero integer
\* divisor stops the program instead (the members are then never observed
\* again).
readOk(f, g, trap) ==
    /\ ~halted
    /\ ghost.okReads < MaxReads
    /\ trap => smoothUse /\ Divisor(smoothSteps, smoothAdvanced) = 0
    /\ vRaw' = RawFromFrame(Frame(f))
    /\ IF calibrationUse
       THEN applyCalibration(g)
       ELSE UNCHANGED vCalibrated
    /\ IF smoothUse /\ ~trap
       THEN smoothing(g)
       ELSE UNCHANGED <<vHistory, vTotals, vSmooth, vScan>>
    /\ halted' = trap
    /\ call' = [NoCall EXCEPT !.op = "read", !.requested = FrameLen,
                              !.rx = Frame(f)]
    /\ ghost' = [ghost EXCEPT !.okReads = @ + 1,
                              !.field = f,
                              !.samples = IF smoothUse THEN Append(@, f)
                                          ELSE @,
                              !.slots = IF smoothUse /\ ~trap
                                        THEN Append(@,
                                               [slot |-> ScanSlot(vScan,
                                                                  smoothSteps),
                                                steps |-> smoothSteps])
                                        ELSE @]
    /\ UNCHANGED <<smoothUse, smoothSteps, smoothAdvanced, calibrationUse,
                   vCalibration>>

-----------------------------------------------------------------------------
(* _get, getX, getY, getZ *)

\* A variant of get that prefers the calibrated value to the smoothed one.
getCalibratedFirst(i) ==
    IF calibrationUse THEN vCalibrated[i]
    ELSE IF smoothUse THEN vSmooth[i]
    ELSE vRaw[i]

get(i) ==
    IF smoothUse THEN vSmooth[i]
    ELSE IF calibrationUse THEN vCalibrated[i]
    ELSE vRaw[i]

\* A variant of Getter that moves the filter's cursor on, as a getter that
\* took a sample of its own would.
GetterAdvancing(name, value) ==
    /\ ~halted
    /\ call' = [NoCall EXCEPT !.op = name, !.ret = value]
    /\ vScan' = ScanSlot(vScan, smoothSteps) + 1
    /\ UNCHANGED <<smoothUse, smoothSteps, smoothAdvanced, vRaw, vHistory,
                   vTotals, vSmooth, calibrationUse, vCalibration,
                   vCalibrated, halted, ghost>>

Getter(name, value) ==
    /\ ~halted
    /\ call' = [NoCall EXCEPT !.op = name, !.ret = value]
    /\ UNCHANGED <<driver, halted, ghost>>

getX == Getter("getX", get(0))
getY == Getter("getY", get(1))
getZ == Getter("getZ", get(2))

-----------------------------------------------------------------------------
(* getAzimuth *)

\* floor(tan(d degrees) * 10^6) for d = 0 .. 89, indexed from 1.
TanE6 ==
    << 0, 17455, 34920, 52407, 69926, 87488,
       105104, 122784, 140540, 158384, 176326, 194380,
       212556, 230868, 249328, 267949, 286745, 305730,
       324919, 344327, 363970, 383864, 404026, 424474,
       445228, 466307, 487732, 509525, 531709, 554309,
       577350, 600860, 624869, 649407, 674508, 700207,
       726542, 753554, 781285, 809784, 839099, 869286,
       900404, 932515, 965688, 1000000, 1035530, 1072368,
       1110612, 1150368, 1191753, 1234897, 1279941, 1327044,
       1376381, 1428148, 1482560, 1539864, 1600334, 1664279,
       1732050, 1804047, 1880726, 1962610, 2050303, 2144506,
       2246036, 2355852, 2475086, 2605089, 2747477, 2904210,
       3077683, 3270852, 3487414, 3732050, 4010780, 4331475,
       4704630, 5144554, 5671281, 6313751, 7115369, 8144346,
       9514364, 11430052, 14300666, 19081136, 28636253, 57289961 >>

\* The whole degrees of atan(opp / adj) for opp, adj >= 0, not both zero.
FloorDeg(opp, adj) ==
    IF adj = 0 THEN 90
    ELSE CHOOSE d \in 0 .. 89 :
            /\ TanE6[d + 1] * adj <= opp * 1000000
            /\ (d = 89 \/ TanE6[d + 2] * adj > opp * 1000000)

\* atan(opp / adj) is a whole number of degrees only at 0, 45 and 90.
CeilDeg(opp, adj) ==
    IF opp = 0 \/ adj = 0 \/ opp = adj
    THEN FloorDeg(opp, adj)
    ELSE FloorDeg(opp, adj) + 1

\* The whole degrees of atan2(y, x) for y >= 0, a value in 0 .. 180.
UpperDeg(y, x) ==
    IF x > 0 THEN FloorDeg(y, x) ELSE 180 - CeilDeg(y, -x)

\* int a = atan2(y, x) * 180.0 / PI: the angle truncated toward zero;
\* atan2(0, 0) is 0.
Atan2Deg(y, x) ==
    IF x = 0 /\ y = 0 THEN 0
    ELSE IF y >= 0 THEN UpperDeg(y, x)
    ELSE -UpperDeg(-y, x)

\* A variant of WrapDegrees that wraps by half a turn.
WrapHalfTurn(a) == IF a < 0 THEN 180 + a ELSE a

\* return a < 0 ? 360 + a : a
WrapDegrees(a) == IF a < 0 THEN 360 + a ELSE a

Azimuth(x, y) == WrapDegrees(Atan2Deg(y, x))

getAzimuth == Getter("getAzimuth", Azimuth(get(0), get(1)))

-----------------------------------------------------------------------------
(* getBearing, getDirection *)

\* unsigned long a = azimuth / 22.5: the quotient truncated (azimuth >= 0).
BearingQuotient(azimuth) == (2 * azimuth) \div 45

\* A variant of Bearing whose quotient keeps its fraction, so that the
\* rounding the source writes takes effect: floor(azimuth / 22.5 + 0.5).
BearingRounded(azimuth) == ((4 * azimuth + 45) \div 90) % 256

\* unsigned long r = a - (int)a;  sexdec = ( r >= .5 ) ? ceil(a) : floor(a);
\* a is integral, so ceil(a) and floor(a) are both a; sexdec is a byte.
Bearing(azimuth) ==
    LET a == BearingQuotient(azimuth)
        r == a - a
    IN (IF 2 * r >= 1 THEN a ELSE a) % 256

\* const char _bearings[16][3]
bearings ==
    [d \in 0 .. 15 |->
        << <<" ", " ", "N">>, <<"N", "N", "E">>, <<" ", "N", "E">>,
           <<"E", "N", "E">>, <<" ", " ", "E">>, <<"E", "S", "E">>,
           <<" ", "S", "E">>, <<"S", "S", "E">>, <<" ", " ", "S">>,
           <<"S", "S", "W">>, <<" ", "S", "W">>, <<"W", "S", "W">>,
           <<" ", " ", "W">>, <<"W", "N", "W">>, <<" ", "N", "W">>,
           <<"N", "N", "W">> >>[d + 1]]

\* _bearings[d][k]: past the table the read is out of bounds, whatever
\* lies there written as "?".
BearingChar(d, k) ==
    IF d \in DOMAIN bearings THEN bearings[d][k + 1] ELSE "?"

getBearing(azimuth) ==
    /\ ~halted
    /\ call' = [NoCall EXCEPT !.op = "getBearing", !.arg = azimuth,
                              !.ret = Bearing(azimuth)]
    /\ UNCHANGED <<driver, halted, ghost>>

getDirection(azimuth) ==
    LET d == Bearing(azimuth)
    IN
    /\ ~halted
    /\ call' = [NoCall EXCEPT !.op = "getDirection", !.arg = azimuth,
                              !.row = d,
                              !.myArray = << BearingChar(d, 0),
                                             BearingChar(d, 1),
                                             BearingChar(d, 2) >>]
    /\ UNCHANGED <<driver, halted, ghost>>

-----------------------------------------------------------------------------
(* The driver under any caller *)

Next ==
    \/ \E c \in SmoothingInputs : setSmoothing(c[1], c[2])
    \/ \E b \in CalInputs : setCalibration(b)
    \/ \E err \in BusStatus : readFailed(err)
    \/ \E f \in Fields, g \in Indeterminate, trap \in BOOLEAN :
          readOk(f, g, trap)
    \/ getX
    \/ getY
    \/ getZ
    \/ getAzimuth

Spec == Init /\ [][Next]_vars

-----------------------------------------------------------------------------
(* read() on every 16-bit field value *)

\* v wrapped into the range of int16_t.
Wrap16(v) == ToInt16(v)

\* One successful read of the field (v, v + 1, v + 2), for every int16_t v.
readWord ==
    /\ ghost.okReads = 0
    /\ \E v \in -32768 .. 32767 :
          readOk(<<v, Wrap16(v + 1), Wrap16(v + 2)>>, 0, FALSE)

SpecBytes == Init /\ [][readWord]_vars

-----------------------------------------------------------------------------
(* getBearing and getDirection on every azimuth getAzimuth can return *)

Azimuths == 0 .. 359

NextBearing ==
    \/ \E azimuth \in Azimuths : getBearing(azimuth)
    \/ \E azimuth \in Azimuths : getDirection(azimuth)

SpecBearing == Init /\ [][NextBearing]_vars

-----------------------------------------------------------------------------
(* getAzimuth on every field (x, y, 0) with |x|, |y| <= MaxField *)

readField ==
    /\ ghost.okReads = 0
    /\ \E x \in -MaxField .. MaxField, y \in -MaxField .. MaxField :
          readOk(<<x, y, 0>>, 0, FALSE)

NextAzimuth ==
    \/ readField
    \/ getAzimuth

SpecAzimuth == Init /\ [][NextAzimuth]_vars

-----------------------------------------------------------------------------
(* The reading pipeline alone: the configuration calls and read(), under   *)
(* the inputs of Spec, no getter being called in between                   *)

NextReading ==
    \/ \E c \in SmoothingInputs : setSmoothing(c[1], c[2])
    \/ \E b \in CalInputs : setCalibration(b)
    \/ \E err \in BusStatus : readFailed(err)
    \/ \E f \in Fields, g \in Indeterminate, trap \in BOOLEAN :
          readOk(f, g, trap)

SpecReading == Init /\ [][NextReading]_vars

-----------------------------------------------------------------------------
(* Advanced smoothing with windows of 3 and 4 on an object in static       *)
(* storage (the sketches' global "QMC5883LCompass compass;": _vHistory is  *)
(* zero at the start)                                                      *)

AdvancedInputs == { <<3, TRUE>>, <<4, TRUE>> }

AdvancedFields == { <<1, 3, 2>>, <<2, 1, 3>>, <<3, 2, 1>> }

NextAdvanced ==
    \/ \E c \in AdvancedInputs : setSmoothing(c[1], c[2])
    \/ \E f \in AdvancedFields : readOk(f, 0, FALSE)

SpecAdvanced == InitWith(0) /\ [][NextAdvanced]_vars

-----------------------------------------------------------------------------
(* The six getters between configuration calls and reads: getBearing and   *)
(* getDirection are given 0 or the azimuth getAzimuth would return, as in  *)
(* the sketches (a = compass.getAzimuth(); compass.getBearing(a);)         *)

GetterConfigs == { <<2, FALSE>>, <<3, TRUE>> }

GetterCalibration == <<-3, 0, 2, 4, -1, 1>>

NextGetters ==
    \/ \E c \in GetterConfigs : setSmoothing(c[1], c[2])
    \/ setCalibration(GetterCalibration)
    \/ \E err \in BusStatus : readFailed(err)
    \/ \E f \in Fields : readOk(f, 0, FALSE)
    \/ getX
    \/ getY
    \/ getZ
    \/ getAzimuth
    \/ \E azimuth \in {0, Azimuth(get(0), get(1))} : getBearing(azimuth)
    \/ \E azimuth \in {0, Azimuth(get(0), get(1))} : getDirection(azimuth)

SpecGetters == Init /\ [][NextGetters]_vars

-----------------------------------------------------------------------------
(* Properties *)

\* The axis a getter reads.
AxisOf(op) == CASE op = "getX" -> 0 [] op = "getY" -> 1 [] op = "getZ" -> 2

AxisGetters == {"getX", "getY", "getZ"}

ReadSucceeded == call.op = "read" /\ call.err = 0
ReadWasRefused == call.op = "read" /\ call.err # 0

\* C1: whatever setSmoothing, setCalibration and read calls came before,
\* getX/getY/getZ return the smoothed value of their axis if setSmoothing has
\* been called, else the calibrated value if setCalibration has been called,
\* else the value the chip reported at the last successful read (0 before
\* the first).
C1_GetterPrecedence ==
    call.op \in AxisGetters =>
        LET i == AxisOf(call.op)
        IN call.ret = IF ghost.smoothing THEN vSmooth[i]
                      ELSE IF ghost.calibration THEN vCalibrated[i]
                      ELSE ghost.field[i + 1]

\* getX after a successful read with both stages in use, the three candidate
\* values of the axis all different.
C1_Witness ==
    /\ call.op = "getX"
    /\ ghost.smoothing /\ ghost.calibration /\ ghost.okReads > 0
    /\ vSmooth[0] # vCalibrated[0]
    /\ vCalibrated[0] # vRaw[0]
    /\ vSmooth[0] # vRaw[0]

\* C2: a read() whose register-pointer write ends with a nonzero status
\* requests no byte and changes none of the raw, calibrated and smoothed
\* values, the history, the totals and the cursor, so that each getter
\* returns what it returned before.
C2_RefusedReadChangesNothing ==
    [][ReadWasRefused' =>
          /\ call'.requested = 0
          /\ UNCHANGED <<vRaw, vCalibrated, vSmooth, vHistory, vTotals, vScan>>
          /\ \A i \in Axes : get(i)' = get(i)]_vars

\* A refused read after a successful one, calibration and smoothing in use.
C2_Witness ==
    /\ ReadWasRefused
    /\ ghost.okReads > 0
    /\ smoothUse /\ calibrationUse
    /\ vSmooth[0] # 0

\* The sum of axis i over the last n entries of a sequence of fields.
RECURSIVE SumLast(_, _, _)
SumLast(fields, i, n) ==
    IF n = 0 THEN 0
    ELSE fields[Len(fields)][i + 1]
         + SumLast(SubSeq(fields, 1, Len(fields) - 1), i, n - 1)

\* The values of axis i in the last n entries.
LastValues(fields, i, n) ==
    { fields[k][i + 1] : k \in (Len(fields) - n + 1) .. Len(fields) }

SetMax(S) == CHOOSE m \in S : \A v \in S : v <= m
SetMin(S) == CHOOSE m \in S : \A v \in S : m <= v

\* The object is in static storage, setSmoothing was last called before the
\* first successful read, setCalibration never, and at least _smoothSteps
\* successful reads followed: the filter's window is full of raw samples.
WindowFull ==
    /\ ghost.fill = 0
    /\ smoothUse /\ ghost.smoothedAt = 0
    /\ ~ghost.calibration
    /\ Len(ghost.samples) >= smoothSteps

\* C3: with basic smoothing of window N in 1 .. 10 configured before the
\* first read, after N or more successful reads the exposed value of each
\* axis is the sum of its last N samples divided by N (integer division).
\* Stated for an object in static storage and without calibration.
C3_BasicAverage ==
    (WindowFull /\ ~smoothAdvanced /\ smoothSteps \in 1 .. MaxSteps) =>
        \A i \in Axes :
            get(i) = TruncDiv(SumLast(ghost.samples, i, smoothSteps),
                              smoothSteps)

\* C4: with advanced smoothing of window N in 3 .. 10 configured before the
\* first read, after N or more successful reads the exposed value of each
\* axis is (sum of its last N samples - their largest - their smallest)
\* divided by N - 2. Stated for an object in static storage and without
\* calibration.
C4_AdvancedAverage ==
    (WindowFull /\ smoothAdvanced /\ smoothSteps \in 3 .. MaxSteps) =>
        \A i \in Axes :
            LET last == LastValues(ghost.samples, i, smoothSteps)
            IN get(i) = TruncDiv(SumLast(ghost.samples, i, smoothSteps)
                                   - SetMax(last) - SetMin(last),
                                 smoothSteps - 2)

\* C5: for every azimuth in 0 .. 359, getBearing(azimuth) is azimuth / 22.5
\* rounded to the nearest integer, halves going up: floor(azimuth/22.5 + 1/2).
C5_BearingRounds ==
    call.op = "getBearing" => call.ret = (4 * call.arg + 45) \div 90

\* C6: for every azimuth in 0 .. 359, getBearing(azimuth) is in 0 .. 15, and
\* getDirection(azimuth) reads a row of the 16-row table and writes exactly
\* the three characters of that row.
C6_BearingInTable ==
    /\ call.op = "getBearing" => call.ret \in 0 .. 15
    /\ call.op = "getDirection" =>
          /\ call.row \in 0 .. 15
          /\ Len(call.myArray) = 3
          /\ \A k \in 0 .. 2 : call.myArray[k + 1] = bearings[call.row][k + 1]

\* getDirection(359) has read row 15 and written "NNW".
C6_Witness ==
    /\ call.op = "getDirection"
    /\ call.arg = 359
    /\ call.row = 15
    /\ call.myArray = <<"N", "N", "W">>

\* The half-range (max - min) / 2 is one positive value on the three axes.
EqualHalfRanges ==
    /\ (vCalibration[0][1] - vCalibration[0][0]) \div 2 > 0
    /\ \A i \in Axes :
          /\ vCalibration[i][1] >= vCalibration[i][0]
          /\ (vCalibration[i][1] - vCalibration[i][0]) \div 2
               = (vCalibration[0][1] - vCalibration[0][0]) \div 2

SymmetricBounds == \A i \in Axes : vCalibration[i][0] = -vCalibration[i][1]

\* (min + max) / 2 with the quotient truncated toward zero.
MidPoint(min, max) ==
    IF min + max >= 0 THEN (min + max) \div 2 ELSE -((-(min + max)) \div 2)

\* C7: with calibration in use and one positive half-range on the three
\* axes, a successful read leaves raw - (min + max) / 2 as the calibrated
\* value of each axis, which is the raw value when min = -max on every axis.
C7_EqualRangeCalibration ==
    (ReadSucceeded /\ calibrationUse /\ EqualHalfRanges) =>
        /\ \A i \in Axes :
              vCalibrated[i]
                = ghost.field[i + 1]
                  - MidPoint(vCalibration[i][0], vCalibration[i][1])
        /\ SymmetricBounds => \A i \in Axes : vCalibrated[i] = ghost.field[i + 1]

\* A successful read under shifted bounds of equal half-range: every axis
\* with a nonzero midpoint is moved, the x midpoint being negative and odd.
C7_Witness ==
    /\ ReadSucceeded /\ calibrationUse /\ EqualHalfRanges
    /\ ~SymmetricBounds
    /\ vCalibration[0][0] + vCalibration[0][1] = -3
    /\ vCalibrated[0] = vRaw[0] + 1
    /\ vCalibrated[1] = vRaw[1] - 3

\* C8: a successful read that receives the two's-complement low byte then
\* the high byte of a value v in -32768 .. 32767 for an axis stores v as that
\* axis's raw value: bytes 0-1 for X, 2-3 for Y, 4-5 for Z.
C8_WordRoundTrip ==
    ReadSucceeded =>
        \A i \in Axes :
            /\ vRaw[i] \in -32768 .. 32767
            /\ vRaw[i] = ghost.field[i + 1]
            /\ call.rx[2 * i + 1] = (vRaw[i] + 65536) % 256
            /\ call.rx[2 * i + 2] = ((vRaw[i] + 65536) % 65536) \div 256

\* The read of the field (32767, -32768, -32767): bytes FF 7F 00 80 01 80.
C8_Witness ==
    /\ ReadSucceeded
    /\ call.rx = <<255, 127, 0, 128, 1, 128>>
    /\ vRaw[0] = 32767 /\ vRaw[1] = -32768 /\ vRaw[2] = -32767

\* round(sin(d degrees) * 10^6) for d = 0 .. 90, indexed from 1.
SinE6 ==
    << 0, 17452, 34899, 52336, 69756, 87156, 104528,
       121869, 139173, 156434, 173648, 190809, 207912, 224951,
       241922, 258819, 275637, 292372, 309017, 325568, 342020,
       358368, 374607, 390731, 406737, 422618, 438371, 453990,
       469472, 484810, 500000, 515038, 529919, 544639, 559193,
       573576, 587785, 601815, 615661, 629320, 642788, 656059,
       669131, 681998, 694658, 707107, 719340, 731354, 743145,
       754710, 766044, 777146, 788011, 798636, 809017, 819152,
       829038, 838671, 848048, 857167, 866025, 874620, 882948,
       891007, 898794, 906308, 913545, 920505, 927184, 933580,
       939693, 945519, 951057, 956305, 961262, 965926, 970296,
       974370, 978148, 981627, 984808, 987688, 990268, 992546,
       994522, 996195, 997564, 998630, 999391, 999848, 1000000 >>

Sin(r) ==
    LET q == r % 360
    IN IF q <= 90 THEN SinE6[q + 1]
       ELSE IF q <= 180 THEN SinE6[181 - q]
       ELSE IF q <= 270 THEN -SinE6[q - 179]
       ELSE -SinE6[361 - q]

Cos(r) == Sin(r + 90)

\* The direction (x, y) lies r degrees or more, and less than r + 1 degrees,
\* counter-clockwise from the x axis.
InDegree(r, x, y) ==
    /\ Cos(r) * y - Sin(r) * x >= 0
    /\ Cos(r + 1) * y - Sin(r + 1) * x < 0

\* C9: getAzimuth returns an integer in 0 .. 359, the whole degrees of the
\* angle atan2(Y, X) of the exposed X and Y (its fraction dropped), plus 360
\* when that is negative; (1,0), (0,1), (-1,0), (0,-1) give 0, 90, 180, 270.
C9_Azimuth ==
    call.op = "getAzimuth" =>
        LET x == get(0)
            y == get(1)
            r == call.ret
            \* the whole degrees of the angle's magnitude
            t == IF y >= 0 \/ r = 0 THEN r ELSE 360 - r
        IN /\ r \in 0 .. 359
           /\ t \in 0 .. 180
           /\ (x = 0 /\ y = 0) => r = 0
           /\ (x # 0 \/ y # 0) => InDegree(t, x, Abs(y))
           /\ (x = 1 /\ y = 0) => r = 0
           /\ (x = 0 /\ y = 1) => r = 90
           /\ (x = -1 /\ y = 0) => r = 180
           /\ (x = 0 /\ y = -1) => r = 270

\* getAzimuth on the field (0, -1, 0) has returned 270.
C9_Witness ==
    /\ call.op = "getAzimuth"
    /\ ghost.field = <<0, -1, 0>>
    /\ get(0) = 0 /\ get(1) = -1
    /\ call.ret = 270

\* The sum of axis i over the history slots 0 .. n - 1.
RECURSIVE SumSlots(_, _, _)
SumSlots(history, i, n) ==
    IF n = 0 THEN 0 ELSE history[n - 1][i] + SumSlots(history, i, n - 1)

\* C10: with smoothing in use, its window N fixed since before the first
\* read, and the history zero at the start, after every successful read the
\* total of each axis is the sum of that axis over history slots 0 .. N-1.
C10_TotalIsSumOfWindow ==
    (/\ ghost.fill = 0
     /\ smoothUse /\ ghost.smoothedAt = 0
     /\ smoothSteps \in 1 .. MaxSteps
     /\ ReadSucceeded /\ ~halted) =>
        \A i \in Axes : vTotals[i] = SumSlots(vHistory, i, smoothSteps)

\* A read that ran _smoothing has just returned.
SmoothingRan ==
    /\ ReadSucceeded /\ smoothUse /\ ~halted
    /\ Len(ghost.slots) > 0

\* The entry of ghost.slots for the read before the last one that ran
\* _smoothing, if there is one.
HasPrevSlot == Len(ghost.slots) > 1
LastSlot == ghost.slots[Len(ghost.slots)]
PrevSlot == ghost.slots[Len(ghost.slots) - 1]

\* C11: a read that runs _smoothing with a window N >= 1 writes one history
\* slot, of index in 0 .. N-1 and at most 9, the same for the three axes;
\* the other slots keep their values; the cursor is left one past the slot
\* written; and if the previous read that ran _smoothing had the same window
\* N and wrote slot s, this one writes slot (s + 1) mod N. A refused read
\* writes no slot and leaves the cursor alone.
C11_CursorCycles ==
    [][/\ (/\ SmoothingRan'
            /\ ghost'.okReads = ghost.okReads + 1
            /\ smoothSteps >= 1) =>
              LET s == LastSlot'.slot
                  N == smoothSteps
              IN /\ s \in 0 .. (N - 1)
                 /\ s <= HistorySize - 1
                 /\ Len(ghost'.slots) = Len(ghost.slots) + 1
                 /\ \A k \in Slots \ {s} : vHistory'[k] = vHistory[k]
                 /\ \A i \in Axes :
                        vHistory'[s][i] = IF calibrationUse
                                          THEN vCalibrated'[i]
                                          ELSE vRaw'[i]
                 /\ vScan' = s + 1
                 /\ (HasPrevSlot' /\ PrevSlot'.steps = N) =>
                        s = (PrevSlot'.slot + 1) % N
       /\ ReadWasRefused' =>
              /\ vHistory' = vHistory
              /\ vScan' = vScan
              /\ ghost'.slots = ghost.slots]_vars

\* The third read with a window of 2 has wrapped from slot 1 to slot 0, and
\* that slot holds a sample different from the one in slot 1.
C11_Witness ==
    /\ SmoothingRan
    /\ smoothSteps = 2
    /\ Len(ghost.slots) = 3
    /\ ghost.slots[1].slot = 0 /\ ghost.slots[2].slot = 1
    /\ LastSlot.slot = 0 /\ LastSlot.steps = 2 /\ PrevSlot.steps = 2
    /\ vScan = 1
    /\ vHistory[0] # vHistory[1]

\* The field of the last successful read as an array over the axes.
FieldRead == [i \in Axes |-> ghost.field[i + 1]]

\* What the filter is to take of axis i at the read just made: the chip's
\* value, or with calibration in use the calibration of that value.
FilterSample(i) ==
    IF calibrationUse
    THEN CalibratedAxis(FieldRead, vCalibration, i, 0)
    ELSE FieldRead[i]

\* C12: at a successful read that runs _smoothing, the value written into
\* the history slot, and added to the running total (from which the slot's
\* old value has or has not been subtracted), is for each axis the calibrated
\* value of the sample of that same read if calibration is in use, and the
\* raw sample if not.
C12_CalibrationBeforeSmoothing ==
    /\ [](SmoothingRan =>
            \A i \in Axes :
                /\ vHistory[LastSlot.slot][i] = FilterSample(i)
                /\ calibrationUse => vCalibrated[i] = FilterSample(i)
                /\ ~calibrationUse => vRaw[i] = FilterSample(i))
    /\ [][(SmoothingRan' /\ ghost'.okReads = ghost.okReads + 1) =>
            \A i \in Axes :
                (vTotals'[i] - vTotals[i])
                   \in { vHistory'[vScan' - 1][i],
                         vHistory'[vScan' - 1][i] - vHistory[vScan' - 1][i] }
          ]_vars

\* The second read with calibration and smoothing in use: the slot written
\* holds a calibrated X that is neither the raw X nor the calibrated X of the
\* read before, which the previous slot holds.
C12_Witness ==
    /\ SmoothingRan /\ calibrationUse
    /\ HasPrevSlot
    /\ LastSlot.slot # PrevSlot.slot
    /\ vHistory[LastSlot.slot][0] = vCalibrated[0]
    /\ vCalibrated[0] # vRaw[0]
    /\ vHistory[PrevSlot.slot][0] # vCalibrated[0]
    /\ vHistory[PrevSlot.slot][0] # vRaw[0]

\* C13: once setSmoothing has been called, with any byte for steps, the
\* stored window size is in 1 .. 10, and no successful read in basic mode
\* divides by a window size of zero.
C13_BasicDivisorNeverZero ==
    /\ ghost.smoothing => smoothSteps \in 1 .. MaxSteps
    /\ (ReadSucceeded /\ smoothUse /\ ~smoothAdvanced) => smoothSteps # 0

\* C14: no successful read evaluates the advanced average with a divisor
\* window size - 2 that is zero or negative: setSmoothing(steps, true) with
\* steps < 3 does not leave advanced smoothing in use with such a window.
C14_AdvancedDivisorPositive ==
    (ReadSucceeded /\ smoothUse /\ smoothAdvanced) => smoothSteps - 2 > 0

\* The values of axis i in history slots 0 .. n - 1.
SlotValues(i, n) == { vHistory[k][i] : k \in 0 .. (n - 1) }

\* Slot N-1 holds a value of axis i below (above) that of every other slot
\* of the window.
LastSlotStrictMin(i) ==
    \A k \in 0 .. (smoothSteps - 2) :
        vHistory[smoothSteps - 1][i] < vHistory[k][i]
LastSlotStrictMax(i) ==
    \A k \in 0 .. (smoothSteps - 2) :
        vHistory[smoothSteps - 1][i] > vHistory[k][i]

\* A read has just run _smoothing in advanced mode with a window N >= 3.
AdvancedRan == SmoothingRan /\ smoothAdvanced /\ smoothSteps >= 3

\* C15 as stated: in advanced mode with window N >= 3, whenever slot N-1
\* holds the strict minimum or the strict maximum of the window, the exposed
\* value differs from (sum of the N slots - their maximum - their minimum)
\* divided by N - 2.
C15_ResultAlwaysDiffers ==
    AdvancedRan =>
        \A i \in Axes :
            (LastSlotStrictMin(i) \/ LastSlotStrictMax(i)) =>
                get(i) # TruncDiv(SumSlots(vHistory, i, smoothSteps)
                                    - SetMax(SlotValues(i, smoothSteps))
                                    - SetMin(SlotValues(i, smoothSteps)),
                                  smoothSteps - 2)

\* C15 amended: in advanced mode with window N >= 3 the exposed value is
\* (running total - largest - smallest of slots 0 .. N-2) divided by N - 2,
\* slot N-1 taking no part in the search. When slot N-1 holds the strict
\* minimum (maximum) of the window, the value subtracted as minimum
\* (maximum) is larger (smaller) than the window's, the other being the
\* window's, so the dividend differs from running total - true maximum -
\* true minimum; for N = 3, where the divisor is 1, so does the result.
C15_ScanLeavesOutLastSlot ==
    AdvancedRan =>
        \A i \in Axes :
            LET N == smoothSteps
                scanMax == SetMax(SlotValues(i, N - 1))
                scanMin == SetMin(SlotValues(i, N - 1))
                trueMax == SetMax(SlotValues(i, N))
                trueMin == SetMin(SlotValues(i, N))
            IN /\ get(i) = TruncDiv(vTotals[i] - scanMax - scanMin, N - 2)
               /\ LastSlotStrictMin(i) =>
                     /\ scanMin > trueMin /\ scanMax = trueMax
                     /\ N = 3 => get(i) # vTotals[i] - trueMax - trueMin
               /\ LastSlotStrictMax(i) =>
                     /\ scanMax < trueMax /\ scanMin = trueMin
                     /\ N = 3 => get(i) # vTotals[i] - trueMax - trueMin

\* Three reads with a window of 3 have left X = 2, 3, 1 in slots 0, 1, 2:
\* slot 2 holds the strict minimum and the exposed X is 6 - 3 - 2 = 1, where
\* leaving out the true minimum and maximum gives 2.
C15_Witness ==
    /\ AdvancedRan /\ smoothSteps = 3
    /\ Len(ghost.slots) = 3 /\ LastSlot.slot = 2
    /\ vHistory[0][0] = 2 /\ vHistory[1][0] = 3 /\ vHistory[2][0] = 1
    /\ LastSlotStrictMin(0)
    /\ vTotals[0] = 6
    /\ get(0) = 1

GetterOps == AxisGetters \cup {"getAzimuth", "getBearing", "getDirection"}

\* C16: a call of getX, getY, getZ, getAzimuth, getBearing or getDirection
\* leaves every member of the driver as it was, returns a value fixed by the
\* members as they were before the call (so that calling again returns the
\* same), and leaves what each getter would return unchanged; the history,
\* the totals, the cursor and the smoothed values change only in a
\* successful read.
C16_GettersChangeNothing ==
    [][/\ call'.op \in GetterOps =>
             /\ UNCHANGED driver
             /\ \A i \in Axes : get(i)' = get(i)
             /\ \A i \in Axes :
                    (call'.op \in AxisGetters /\ AxisOf(call'.op) = i) =>
                        /\ call'.ret = get(i)
                        /\ call'.ret = get(i)'
             /\ call'.op = "getAzimuth" =>
                    /\ call'.ret = Azimuth(get(0), get(1))
                    /\ call'.ret = Azimuth(get(0), get(1))'
             /\ (call'.op = call.op /\ call'.arg = call.arg) =>
                    /\ call'.ret = call.ret
                    /\ call'.row = call.row
                    /\ call'.myArray = call.myArray
       /\ <<vHistory, vTotals, vScan, vSmooth>>'
             # <<vHistory, vTotals, vScan, vSmooth>> =>
             /\ ReadSucceeded'
             /\ ghost'.okReads = ghost.okReads + 1]_vars

\* getDirection called after two reads that ran the filter, with calibration
\* in use: the cursor stands at 2 and the smoothed X is not zero.
C16_Witness ==
    /\ call.op = "getDirection"
    /\ call.arg # 0
    /\ smoothUse /\ calibrationUse
    /\ Len(ghost.slots) = 2
    /\ vScan = 2
    /\ vSmooth[0] # 0

=============================================================================
